---- MODULE Spec2Model ----
(***************************************************************************)
(* Model of klados-server (src/index.js): an Express application that      *)
(* relays chat requests to three AI providers and proxies CRUD operations  *)
(* to a Supabase backend behind a per-request authentication middleware.   *)
(*                                                                         *)
(* An action is one run of the event loop: the code of a handler between   *)
(* two awaits.  The environment (clients, the identity backend, the data   *)
(* backend, the AI providers, the deployment's configuration) chooses the  *)
(* inputs and the outcome of every outbound call.                          *)
(*                                                                         *)
(* Strings that the code takes apart (the Authorization header) are        *)
(* sequences of atoms, " " being the separator atom and every other atom a *)
(* run of non-space characters.                                            *)
(***************************************************************************)
EXTENDS Integers, Sequences, FiniteSets, TLC

VARIABLES req, env, nextClient

vars == <<req, env, nextClient>>

(***************************************************************************)
(* Bounds of the model.                                                    *)
(***************************************************************************)
\* request slots of the full specification
NumReqs == 1
\* concurrent request slots of the concurrency specification
NumConc == 2
\* chunks an upstream stream sends at most
MaxChunks == 2
\* readings of the server's clock
MaxTime == 2

(***************************************************************************)
(* JavaScript values.                                                      *)
(***************************************************************************)
Undefined == "<undefined>"
SP == " "

\* an optional string: the result of an optional chain or an index
NoStr == [defined |-> FALSE, s |-> <<>>]
Str(s) == [defined |-> TRUE, s |-> s]

\* a test for undefined alone, which lets the empty string through
FalsyUndefinedOnly(v) == ~v.defined

\* !v for an optional string: undefined and "" are falsy
Falsy(v) == ~v.defined \/ v.s = <<>>

\* String.prototype.split(' '): the parts between separators, "" included
RECURSIVE SplitFrom(_, _, _)
SplitFrom(s, i, cur) ==
    IF i > Len(s) THEN <<cur>>
    ELSE IF s[i] = SP THEN <<cur>> \o SplitFrom(s, i + 1, <<>>)
    ELSE SplitFrom(s, i + 1, Append(cur, s[i]))

Split(s) == SplitFrom(s, 1, <<>>)

\* { ...obj, [key]: value }: the spread fields, then the named field on top
SpreadWith(obj, key, value) ==
    [f \in DOMAIN obj \cup {key} |-> IF f = key THEN value ELSE obj[f]]

\* obj.key for a key that may be missing
Get(obj, key) == IF key \in DOMAIN obj THEN obj[key] ELSE Undefined

\* a || b over values where Undefined is the only falsy one in play
OrElse(a, b) == IF a = Undefined THEN b ELSE a

RECURSIVE MapId(_)
\* nodes.map(n => n.id)
MapId(rows) == IF rows = <<>> THEN <<>> ELSE <<Head(rows).id>> \o MapId(Tail(rows))

IsPrefix(s, t) == Len(s) <= Len(t) /\ \A i \in 1..Len(s) : s[i] = t[i]

\* new Date().toISOString() for the clock readings of the model
IsoStrings == << "1970-01-01T00:00:00.001Z", "1970-01-01T00:00:00.002Z",
                 "1970-01-01T00:00:00.003Z", "1970-01-01T00:00:00.004Z" >>
Times == 1..MaxTime
ToISOString(t) == IsoStrings[t]

(***************************************************************************)
(* The environment: configuration, users, tokens.                          *)
(***************************************************************************)
AnonKey == "anon-key"
ServiceKey == "service-role-key"
SupabaseUrl == "https://project.supabase.co"

\* the values a deployment may give SUPABASE_KEY (index.js 106-107)
ConfiguredKeys == {AnonKey, ServiceKey}

\* the identity backend's users, by token
TokA == <<"tA">>
TokB == <<"tB">>
TokBad == <<"bad">>
UserA == [id |-> "uA", email |-> "a@example.org"]
UserB == [id |-> "uB", email |-> "b@example.org"]
NoUser == [id |-> Undefined, email |-> Undefined]
TokenUser(tok) == IF tok = TokA THEN UserA ELSE IF tok = TokB THEN UserB ELSE NoUser

\* Authorization headers clients send; present = FALSE is a request without one;
\* the guard never looks at the scheme, so "Token tB" carries tB as well
Header(v) == [present |-> TRUE, value |-> v]
NoHeader == [present |-> FALSE, value |-> <<>>]
Headers == { NoHeader, Header(<<"Bearer">>), Header(<<"Bearer", SP>>),
             Header(<<"Bearer", SP>> \o TokA), Header(<<"Token", SP>> \o TokB),
             Header(<<"Bearer", SP>> \o TokBad) }
ConcHeaders == { Header(<<"Bearer", SP>> \o TokA), Header(<<"Bearer", SP>> \o TokB) }

\* request bodies (express.json: an object; {} when the request has none)
EmptyBody == [f \in {} |-> ""]
Bodies == { EmptyBody,
            [title |-> "T", user_id |-> "uB"],
            [status |-> "archived", updated_at |-> ToISOString(1), user_id |-> "uB"] }
ConcBodies == { [title |-> "T", user_id |-> "uB"] }

PathId == "c1"

(***************************************************************************)
(* Supabase clients.  A client is the capability createClient returns: its *)
(* id tells instances apart, its token is the Authorization header it      *)
(* sends with every call ("" for the key alone).                           *)
(***************************************************************************)
CreateClient(id, tok) == [id |-> id, token |-> tok]
NoClient == [id |-> -1, token |-> <<>>]

\* the module-level client of index.js 108; no route uses it
supabase == CreateClient(0, <<>>)

(***************************************************************************)
(* Responses.  sends counts the times the code started a response on the   *)
(* same res object (a second one is ERR_HTTP_HEADERS_SENT in Node).        *)
(***************************************************************************)
NoBody == [kind |-> "none"]
ErrorBody(msg) == [kind |-> "error", error |-> msg]
DataBody(data) == [kind |-> "data", data |-> data]
SuccessBody == [kind |-> "success", success |-> TRUE]

NoRes == [sends |-> 0, status |-> 0, ctype |-> Undefined, body |-> NoBody,
          chunks |-> <<>>, ended |-> FALSE]

\* res.status(status).json(body); res.json(body) is status 200
SendJson(res, status, body) ==
    IF res.sends = 0
    THEN [res EXCEPT !.sends = 1, !.status = status, !.ctype = "application/json",
                     !.body = body, !.ended = TRUE]
    ELSE [res EXCEPT !.sends = @ + 1]

\* res.status(status).send(text)
SendText(res, status, text) ==
    IF res.sends = 0
    THEN [res EXCEPT !.sends = 1, !.status = status, !.ctype = "text/html",
                     !.body = [kind |-> "text", text |-> text], !.ended = TRUE]
    ELSE [res EXCEPT !.sends = @ + 1]

(***************************************************************************)
(* Requests.                                                               *)
(***************************************************************************)
CreateRoutes == {"POST /api/db/conversations", "POST /api/db/nodes",
                 "POST /api/db/messages", "POST /api/db/bugs"}
SuccessRoutes == {"PATCH /api/db/nodes/:id", "PATCH /api/db/conversations/:id",
                  "DELETE /api/db/conversations/:id"}
DbRoutes == {"GET /api/db/conversations", "GET /api/db/conversations/:id"}
                \cup CreateRoutes \cup SuccessRoutes
BodyRoutes == CreateRoutes \cup {"PATCH /api/db/nodes/:id", "PATCH /api/db/conversations/:id"}
ConcRoutes == {"POST /api/db/conversations", "GET /api/db/conversations/:id"}

\* the table a create route inserts into
TableOf(route) ==
    CASE route = "POST /api/db/conversations" -> "conversations"
      [] route = "POST /api/db/nodes" -> "nodes"
      [] route = "POST /api/db/messages" -> "messages"
      [] route = "POST /api/db/bugs" -> "bug_reports"

BodiesOf(route, bodies) == IF route \in BodyRoutes THEN bodies ELSE {EmptyBody}

\* outcomes of the outbound calls, kept as they came; settled = FALSE: none yet
NoOutcome == [settled |-> FALSE, threw |-> FALSE, error |-> Undefined, user |-> NoUser]
NoDbOutcome == [settled |-> FALSE, error |-> Undefined, data |-> <<>>]
NoUpOutcome == [settled |-> FALSE, ok |-> FALSE, status |-> 0, data |-> <<>>]

IdleReq == [pc |-> "idle", route |-> Undefined, header |-> NoHeader, body |-> EmptyBody,
            token |-> NoStr, localClient |-> NoClient, userClient |-> NoClient,
            user |-> NoUser, auth |-> NoOutcome, handlerRan |-> FALSE, now |-> 0,
            calls |-> <<>>, db1 |-> NoDbOutcome, db2 |-> NoDbOutcome, nodes |-> <<>>,
            stream |-> Undefined, up |-> NoUpOutcome,
            upSent |-> <<>>, upRead |-> 0, upEnded |-> FALSE, res |-> NoRes]

\* one outbound call, as the backend sees it
Call(backend, op, table, arg, via) ==
    [backend |-> backend, op |-> op, table |-> table, arg |-> arg, via |-> via]

(***************************************************************************)
(* authenticateUser (index.js 111-141).                                    *)
(***************************************************************************)
\* req.headers.authorization?.split(' ')[1]
ExtractToken(h) ==
    IF ~h.present THEN NoStr
    ELSE LET parts == Split(h.value)
         IN IF Len(parts) >= 2 THEN Str(parts[2]) ELSE NoStr

\* the guard up to its first await: respond 401, or create the request's
\* client and call the identity backend through it
AuthBegin(q, cid) ==
    IF Falsy(q.token)
    THEN [q EXCEPT !.res = SendJson(@, 401, ErrorBody("Unauthorized")), !.pc = "done"]
    ELSE LET userClient == CreateClient(cid, q.token.s)
         IN [q EXCEPT !.localClient = userClient,
                      !.calls = Append(@, Call("identity", "getUser", Undefined,
                                               Undefined, userClient)),
                      !.pc = "awaitGetUser"]

\* what userClient.auth.getUser() can come back with for a token
GetUserOutcomes(tok) ==
    IF TokenUser(tok) # NoUser
    THEN { [settled |-> TRUE, threw |-> FALSE, error |-> Undefined, user |-> TokenUser(tok)],
           [settled |-> TRUE, threw |-> FALSE, error |-> "service unavailable",
            user |-> NoUser],
           [settled |-> TRUE, threw |-> TRUE, error |-> "fetch failed", user |-> NoUser] }
    ELSE { [settled |-> TRUE, threw |-> FALSE, error |-> "invalid JWT", user |-> NoUser],
           [settled |-> TRUE, threw |-> FALSE, error |-> Undefined, user |-> NoUser],
           [settled |-> TRUE, threw |-> TRUE, error |-> "fetch failed", user |-> NoUser] }

\* if (error): an answer without a user and without an error passes
AuthRejectedErrorOnly(o) == o.error # Undefined

\* if (error || !user)
AuthRejected(o) == o.error # Undefined \/ o.user = NoUser

(***************************************************************************)
(* The /api/db handlers (index.js 145-292), each up to its next await.     *)
(***************************************************************************)
\* the module-level client in the place of the request's own
SharedClientOf(q) == supabase

\* req.userClient, the client every handler calls the data backend through
UserClientOf(q) == q.userClient

\* { user_id: req.user.id, ...req.body }: the body's user_id wins
InsertPayloadBodyWins(body, user) ==
    [f \in DOMAIN body \cup {"user_id"} |-> IF f \in DOMAIN body THEN body[f] ELSE user.id]

\* { ...req.body, user_id: req.user.id }
InsertPayload(body, user) == SpreadWith(body, "user_id", user.id)

\* { updated_at: new Date().toISOString(), ...req.body }: the body's value wins
UpdatePayloadBodyWins(body, t) ==
    [f \in DOMAIN body \cup {"updated_at"} |->
        IF f \in DOMAIN body THEN body[f] ELSE ToISOString(t)]

\* { ...req.body, updated_at: new Date().toISOString() }
UpdatePayload(body, t) == SpreadWith(body, "updated_at", ToISOString(t))

\* const { title } = req.body; update({ title })
TitlePayload(body) == [title |-> Get(body, "title")]

\* the first backend call of a route's handler
FirstCall(q, t) ==
    LET via == UserClientOf(q)
        byId == <<"id", PathId>>
    IN CASE q.route = "GET /api/db/conversations" ->
              Call("data", "select", "conversations",
                   [order |-> "updated_at", ascending |-> FALSE], via)
         [] q.route = "GET /api/db/conversations/:id" ->
              Call("data", "select", "nodes", [eq |-> <<"conversations_id", PathId>>], via)
         [] q.route \in CreateRoutes ->
              Call("data", "insert", TableOf(q.route), InsertPayload(q.body, q.user), via)
         [] q.route = "PATCH /api/db/nodes/:id" ->
              Call("data", "update", "nodes", [set |-> TitlePayload(q.body), eq |-> byId], via)
         [] q.route = "PATCH /api/db/conversations/:id" ->
              Call("data", "update", "conversations",
                   [set |-> UpdatePayload(q.body, t), eq |-> byId], via)
         [] q.route = "DELETE /api/db/conversations/:id" ->
              Call("data", "delete", "conversations", [eq |-> byId], via)

\* next(): the route's handler runs up to its first await; t is the clock
\* reading of a handler that takes one
RunHandler(q, t) ==
    [q EXCEPT !.handlerRan = TRUE,
              !.calls = Append(@, FirstCall(q, t)), !.pc = "awaitDb"]

\* the guard after getUser() came back with outcome o
AuthEnd(q, o, t) ==
    IF o.threw
    THEN [q EXCEPT !.res = SendJson(@, 500, ErrorBody("Internal Auth Error")), !.pc = "done"]
    ELSE IF AuthRejected(o)
    THEN [q EXCEPT !.res = SendJson(@, 401, ErrorBody("Invalid token")), !.pc = "done"]
    ELSE RunHandler([q EXCEPT !.userClient = q.localClient, !.user = o.user], t)

\* the data backend's answers: { data, error }
DbErrorMessages == {"permission denied", "connection timeout"}
DbFailures == { [settled |-> TRUE, error |-> m, data |-> <<>>] : m \in DbErrorMessages }
DbOk(data) == [settled |-> TRUE, error |-> Undefined, data |-> data]

ConversationRows == { <<>>, << [id |-> "c1"], [id |-> "c2"] >> }
NodeRows == { <<>>, << [id |-> "n2"], [id |-> "n1"] >> }

RECURSIVE MessagesOf(_)
\* the backend's messages of the nodes ids: one message a node
MessagesOf(ids) ==
    IF ids = <<>> THEN <<>>
    ELSE << [id |-> "m", nodes_id |-> Head(ids), ordinal |-> 1] >> \o MessagesOf(Tail(ids))

\* the answers to the first call of a route
DbOutcomes(q) ==
    DbFailures \cup
    CASE q.route = "GET /api/db/conversations" -> { DbOk(rows) : rows \in ConversationRows }
      [] q.route = "GET /api/db/conversations/:id" -> { DbOk(rows) : rows \in NodeRows }
      [] q.route \in CreateRoutes ->
           { DbOk(SpreadWith(q.calls[Len(q.calls)].arg, "id", "row-1")) }
      [] OTHER -> { DbOk(<<>>) }

\* catch (error) { res.status(500).json({ error: error.message }) }
DbFail(q, message) ==
    [q EXCEPT !.res = SendJson(@, 500, ErrorBody(message)), !.pc = "done"]

\* the node fetch's error left unchecked: the message fetch is made all the same
DetailIgnoresNodeError(q, o) ==
    [q EXCEPT !.nodes = o.data,
              !.calls = Append(@, Call("data", "select", "messages",
                           [in |-> <<"nodes_id", MapId(o.data)>>,
                            order |-> "ordinal", ascending |-> TRUE],
                           q.userClient)),
              !.pc = "awaitDb2"]

\* GET /api/db/conversations/:id after the node fetch (index.js 171-177)
DetailAfterNodes(q, o) ==
    IF o.error # Undefined THEN DbFail(q, o.error)
    ELSE [q EXCEPT !.nodes = o.data,
                   !.calls = Append(@, Call("data", "select", "messages",
                                [in |-> <<"nodes_id", MapId(o.data)>>,
                                 order |-> "ordinal", ascending |-> TRUE],
                                UserClientOf(q))),
                   !.pc = "awaitDb2"]

\* a handler after its first call came back with o
AfterDb(q, o) ==
    IF q.route = "GET /api/db/conversations/:id" THEN DetailAfterNodes(q, o)
    ELSE IF o.error # Undefined THEN DbFail(q, o.error)
    ELSE IF q.route \in SuccessRoutes
    THEN [q EXCEPT !.res = SendJson(@, 200, SuccessBody), !.pc = "done"]
    ELSE [q EXCEPT !.res = SendJson(@, 200, DataBody(o.data)), !.pc = "done"]

\* GET /api/db/conversations/:id after the message fetch (index.js 178-180)
AfterMessages(q, o) ==
    IF o.error # Undefined THEN DbFail(q, o.error)
    ELSE [q EXCEPT !.res = SendJson(@, 200, [kind |-> "detail", nodes |-> q.nodes,
                                             messages |-> o.data]),
                   !.pc = "done"]

(***************************************************************************)
(* Actions of the /api/db routes.                                          *)
(***************************************************************************)
\* a request arrives on one of routes and authenticateUser runs to its
\* first await
ArriveWith(r, routes, headers, bodies) ==
    /\ req[r].pc = "idle"
    /\ \E route \in routes, h \in headers :
         \E b \in BodiesOf(route, bodies) :
           LET q == [req[r] EXCEPT !.route = route, !.header = h, !.body = b,
                                   !.token = ExtractToken(h)]
               q1 == AuthBegin(q, nextClient)
           IN /\ req' = [req EXCEPT ![r] = q1]
              /\ nextClient' = IF q1.localClient = NoClient THEN nextClient
                               ELSE nextClient + 1
    /\ UNCHANGED env

DbArrive(r) == ArriveWith(r, DbRoutes, Headers, Bodies)

\* getUser() settles and the guard, then the handler, run on
GetUserReturns(r) ==
    /\ req[r].pc = "awaitGetUser"
    /\ \E o \in GetUserOutcomes(req[r].token.s) :
         \E t \in (IF req[r].route = "PATCH /api/db/conversations/:id" THEN Times ELSE {0}) :
           req' = [req EXCEPT ![r] = AuthEnd([@ EXCEPT !.auth = o, !.now = t], o, t)]
    /\ UNCHANGED <<env, nextClient>>

\* the first backend call settles
DbReturns(r) ==
    /\ req[r].pc = "awaitDb"
    /\ \E o \in DbOutcomes(req[r]) :
         req' = [req EXCEPT ![r] = AfterDb([@ EXCEPT !.db1 = o], o)]
    /\ UNCHANGED <<env, nextClient>>

\* the message fetch of the conversation detail settles
MessagesReturn(r) ==
    /\ req[r].pc = "awaitDb2"
    /\ \E o \in DbFailures \cup { DbOk(MessagesOf(MapId(req[r].nodes))) } :
         req' = [req EXCEPT ![r] = AfterMessages([@ EXCEPT !.db2 = o], o)]
    /\ UNCHANGED <<env, nextClient>>

(***************************************************************************)
(* The AI provider relays (index.js 35-101).                               *)
(***************************************************************************)
JsTrue == "true"
JsFalse == "false"
Truthy(v) == v # Undefined /\ v # JsFalse

OpenRouterBodies == { [model |-> "m", messages |-> "msgs"],
                      [model |-> "m", messages |-> "msgs", stream |-> JsFalse],
                      [model |-> "m", messages |-> "msgs", stream |-> JsTrue] }
OpenAIBodies == { [model |-> "m", messages |-> "msgs"] }
GeminiBodies == { [prompt |-> "p"],
                  [model |-> "gemini-pro", prompt |-> "p", history |-> "h", files |-> "f"] }

\* JSON texts are sequences of tokens; SP is insignificant whitespace
RECURSIVE Significant(_)
\* the tokens of a JSON text that carry its value
Significant(text) ==
    IF text = <<>> THEN <<>>
    ELSE IF Head(text) = SP THEN Significant(Tail(text))
    ELSE <<Head(text)>> \o Significant(Tail(text))

\* JSON.parse: the value of a text
JsonParse(text) == [json |-> Significant(text)]

\* JSON.stringify: the compact text of a value
JsonStringify(value) == value.json

UpstreamTexts == { <<"{", "id", ":", "1", "}">>, <<"{", SP, "id", ":", SP, "1", SP, "}">> }
Completions == { [id |-> "cmpl-1", choices |-> "hello"] }
GeminiResponses == { [text |-> "hello", candidates |-> "c"] }

\* HTTP statuses of a failed upstream call; 0 is a failure without a response
UpstreamErrorStatuses == {0, 401, 429, 503}

UpOk(data) == [settled |-> TRUE, ok |-> TRUE, status |-> 200, data |-> data]
UpFailures == { [settled |-> TRUE, ok |-> FALSE, status |-> st, data |-> <<>>] :
                st \in UpstreamErrorStatuses }

\* the upstream status dropped: 500 whatever the upstream said
OpenRouterFailAlways500(o) == 500

\* error.response?.status || 500
OpenRouterFailStatus(o) == IF o.status = 0 THEN 500 ELSE o.status

\* the status of a failed OpenAI or Gemini call: always 500
ProviderFailStatus(o) == 500

\* the outbound call of a relay
RelayCall(q) ==
    CASE q.route = "POST /api/openrouter/chat" ->
           Call("openrouter", "post", "chat/completions",
                [model |-> Get(q.body, "model"), messages |-> Get(q.body, "messages"),
                 stream |-> IF Truthy(q.stream) THEN q.stream ELSE JsFalse,
                 responseType |-> IF Truthy(q.stream) THEN "stream" ELSE "json"],
                NoClient)
      [] q.route = "POST /api/openai/chat" ->
           Call("openai", "create", "chat.completions",
                [model |-> Get(q.body, "model"), messages |-> Get(q.body, "messages")],
                NoClient)
      [] q.route = "POST /api/gemini/generate" ->
           Call("gemini", "generateContent", "models",
                [model |-> OrElse(Get(q.body, "model"), "gemini-1.5-flash"),
                 contents |-> (IF Get(q.body, "history") = Undefined THEN <<>>
                               ELSE <<Get(q.body, "history")>>)
                              \o << [role |-> "user", text |-> Get(q.body, "prompt")] >>],
                NoClient)

\* a relay's handler up to its await
RelayBegin(q, route, b) ==
    LET q1 == [q EXCEPT !.route = route, !.body = b, !.stream = Get(b, "stream"),
                        !.handlerRan = TRUE]
    IN [q1 EXCEPT !.calls = Append(@, RelayCall(q1)), !.pc = "awaitUpstream"]

\* what the provider call can come back with
UpstreamOutcomes(q) ==
    UpFailures \cup
    CASE q.route = "POST /api/openrouter/chat" ->
           IF Truthy(q.stream) THEN { UpOk(<<>>) }
           ELSE { UpOk(text) : text \in UpstreamTexts }
      [] q.route = "POST /api/openai/chat" -> { UpOk(c) : c \in Completions }
      [] q.route = "POST /api/gemini/generate" -> { UpOk(g) : g \in GeminiResponses }

\* res.setHeader(...) three times and response.data.pipe(res)
StartStream(res) ==
    IF res.sends = 0
    THEN [res EXCEPT !.sends = 1, !.status = 200, !.ctype = "text/event-stream"]
    ELSE [res EXCEPT !.sends = @ + 1]

\* POST /api/openrouter/chat after axios.post settled (index.js 51-63); axios
\* parses a json response, res.json serialises the value again
OpenRouterEnd(q, o) ==
    IF ~o.ok
    THEN [q EXCEPT !.res = SendJson(@, OpenRouterFailStatus(o),
                                    ErrorBody("Failed to fetch from OpenRouter")),
                   !.pc = "done"]
    ELSE IF Truthy(q.stream)
    THEN [q EXCEPT !.res = StartStream(@), !.pc = "piping"]
    ELSE [q EXCEPT !.res = SendJson(@, 200, [kind |-> "json",
                                             text |-> JsonStringify(JsonParse(o.data))]),
                   !.pc = "done"]

\* POST /api/openai/chat and POST /api/gemini/generate after the call settled
ProviderEnd(q, o) ==
    IF ~o.ok
    THEN [q EXCEPT !.res = SendJson(@, ProviderFailStatus(o),
                                    ErrorBody(IF q.route = "POST /api/openai/chat"
                                              THEN "Failed to fetch from OpenAI"
                                              ELSE "Failed to fetch from Gemini")),
                   !.pc = "done"]
    ELSE IF q.route = "POST /api/openai/chat"
    THEN [q EXCEPT !.res = SendJson(@, 200, DataBody(o.data)), !.pc = "done"]
    ELSE [q EXCEPT !.res = SendJson(@, 200, DataBody([text |-> o.data.text])), !.pc = "done"]

\* a listener that writes every chunk twice
PipeWriteTwice(chunks, chunk) == Append(Append(chunks, chunk), chunk)

\* the pipe's 'data' listener: dest.write(chunk)
PipeWrite(chunks, chunk) == Append(chunks, chunk)

ChunkValues == {"data: a", "data: b"}

(***************************************************************************)
(* Actions of the relays, the configuration and the health routes.         *)
(***************************************************************************)
OpenRouterArrive(r) ==
    /\ req[r].pc = "idle"
    /\ \E b \in OpenRouterBodies :
         req' = [req EXCEPT ![r] = RelayBegin(@, "POST /api/openrouter/chat", b)]
    /\ UNCHANGED <<env, nextClient>>

OpenAIArrive(r) ==
    /\ req[r].pc = "idle"
    /\ \E b \in OpenAIBodies :
         req' = [req EXCEPT ![r] = RelayBegin(@, "POST /api/openai/chat", b)]
    /\ UNCHANGED <<env, nextClient>>

GeminiArrive(r) ==
    /\ req[r].pc = "idle"
    /\ \E b \in GeminiBodies :
         req' = [req EXCEPT ![r] = RelayBegin(@, "POST /api/gemini/generate", b)]
    /\ UNCHANGED <<env, nextClient>>

\* the provider call settles
UpstreamReturns(r) ==
    /\ req[r].pc = "awaitUpstream"
    /\ \E o \in UpstreamOutcomes(req[r]) :
         req' = [req EXCEPT ![r] = IF @.route = "POST /api/openrouter/chat"
                                   THEN OpenRouterEnd([@ EXCEPT !.up = o], o)
                                   ELSE ProviderEnd([@ EXCEPT !.up = o], o)]
    /\ UNCHANGED <<env, nextClient>>

\* the upstream sends one more chunk of its event stream
UpstreamSend(r) ==
    /\ req[r].pc = "piping"
    /\ ~req[r].upEnded
    /\ Len(req[r].upSent) < MaxChunks
    /\ \E c \in ChunkValues : req' = [req EXCEPT ![r].upSent = Append(@, c)]
    /\ UNCHANGED <<env, nextClient>>

\* the pipe reads the next chunk and writes it to the response
PipeData(r) ==
    /\ req[r].pc = "piping"
    /\ req[r].upRead < Len(req[r].upSent)
    /\ req' = [req EXCEPT ![r].upRead = @ + 1,
                          ![r].res.chunks = PipeWrite(@, req[r].upSent[req[r].upRead + 1])]
    /\ UNCHANGED <<env, nextClient>>

\* the upstream finishes its stream
UpstreamEnd(r) ==
    /\ req[r].pc = "piping"
    /\ ~req[r].upEnded
    /\ req' = [req EXCEPT ![r].upEnded = TRUE]
    /\ UNCHANGED <<env, nextClient>>

\* the source's 'end' after the last chunk was read: the pipe ends the response
PipeEnd(r) ==
    /\ req[r].pc = "piping"
    /\ req[r].upEnded
    /\ req[r].upRead = Len(req[r].upSent)
    /\ req' = [req EXCEPT ![r].res.ended = TRUE, ![r].pc = "done"]
    /\ UNCHANGED <<env, nextClient>>

\* the upstream stream fails before its end: pipe() listens to the source's
\* 'data' and 'end' only, so nothing ends or destroys the response
UpstreamError(r) ==
    /\ req[r].pc = "piping"
    /\ ~req[r].upEnded
    /\ req' = [req EXCEPT ![r].pc = "pipeBroken"]
    /\ UNCHANGED <<env, nextClient>>

\* GET /api/config/supabase (index.js 299-304)
ConfigBody(e) == [url |-> e.SUPABASE_URL, key |-> e.SUPABASE_KEY]

ConfigArrive(r) ==
    /\ req[r].pc = "idle"
    /\ req' = [req EXCEPT ![r].route = "GET /api/config/supabase",
                          ![r].handlerRan = TRUE,
                          ![r].res = SendJson(@, 200, DataBody(ConfigBody(env))),
                          ![r].pc = "done"]
    /\ UNCHANGED <<env, nextClient>>

\* GET /health (index.js 307-309)
HealthArrive(r) ==
    /\ req[r].pc = "idle"
    /\ req' = [req EXCEPT ![r].route = "GET /health", ![r].handlerRan = TRUE,
                          ![r].res = SendText(@, 200, "OK"), ![r].pc = "done"]
    /\ UNCHANGED <<env, nextClient>>

(***************************************************************************)
(* Specifications.                                                         *)
(***************************************************************************)
Envs == { [SUPABASE_URL |-> SupabaseUrl, SUPABASE_KEY |-> k] : k \in ConfiguredKeys }

Init ==
    /\ req = [r \in 1..NumReqs |-> IdleReq]
    /\ env \in Envs
    /\ nextClient = 1

Next ==
    \E r \in 1..NumReqs :
        \/ DbArrive(r)
        \/ GetUserReturns(r)
        \/ DbReturns(r)
        \/ MessagesReturn(r)
        \/ OpenRouterArrive(r)
        \/ OpenAIArrive(r)
        \/ GeminiArrive(r)
        \/ UpstreamReturns(r)
        \/ UpstreamSend(r)
        \/ PipeData(r)
        \/ UpstreamEnd(r)
        \/ PipeEnd(r)
        \/ UpstreamError(r)
        \/ ConfigArrive(r)
        \/ HealthArrive(r)

Spec == Init /\ [][Next]_vars

\* every outbound call settles and a stream goes on until it ends or fails;
\* clients owe the server no request
Progress(r) ==
    \/ GetUserReturns(r)
    \/ DbReturns(r)
    \/ MessagesReturn(r)
    \/ UpstreamReturns(r)
    \/ UpstreamSend(r)
    \/ PipeData(r)
    \/ UpstreamEnd(r)
    \/ PipeEnd(r)
    \/ UpstreamError(r)

FairSpec == Spec /\ \A r \in 1..NumReqs : WF_vars(Progress(r))

\* requests of different users on the /api/db routes, interleaved
ConcArrive(r) == ArriveWith(r, ConcRoutes, ConcHeaders, ConcBodies)

InitConc ==
    /\ req = [r \in 1..NumConc |-> IdleReq]
    /\ env \in Envs
    /\ nextClient = 1

NextConc ==
    \E r \in 1..NumConc :
        \/ ConcArrive(r)
        \/ GetUserReturns(r)
        \/ DbReturns(r)
        \/ MessagesReturn(r)

SpecConc == InitConc /\ [][NextConc]_vars

TypeOK ==
    /\ nextClient \in 1..(Cardinality(DOMAIN req) + 1)
    /\ env \in Envs
    /\ \A r \in DOMAIN req :
         req[r].pc \in {"idle", "awaitGetUser", "awaitDb", "awaitDb2", "awaitUpstream",
                        "piping", "pipeBroken", "done"}

(***************************************************************************)
(* Vocabulary of the properties.                                           *)
(***************************************************************************)
IsDb(q) == q.route \in DbRoutes
Done(q) == q.pc = "done"

\* the request carries no token: no header, or a header without a token part
NoToken(q) == q.header \in {NoHeader, Header(<<"Bearer">>), Header(<<"Bearer", SP>>)}

\* the identity backend answered and gave no user
Rejected(q) ==
    /\ q.auth.settled
    /\ ~q.auth.threw
    /\ (q.auth.error # Undefined \/ q.auth.user = NoUser)

\* the identity backend answered with the token's user
Accepted(q) ==
    /\ q.auth.settled
    /\ ~q.auth.threw
    /\ q.auth.error = Undefined
    /\ q.auth.user # NoUser

CallsTo(q, backend) == { i \in 1..Len(q.calls) : q.calls[i].backend = backend }

\* the body asks for a streamed answer
StreamRequested(q) == "stream" \in DOMAIN q.body /\ q.body["stream"] = JsTrue

(***************************************************************************)
(* C1.  As claimed: a /api/db request without a valid bearer token (no     *)
(* header, no token part, or a token the identity backend rejects) is      *)
(* answered 401 and no backend at all was called, nor the handler run.     *)
(***************************************************************************)
C1_NoBackendCallAtAll ==
    \A r \in DOMAIN req :
        LET q == req[r]
        IN (IsDb(q) /\ Done(q) /\ (NoToken(q) \/ Rejected(q)))
             => /\ q.res.status = 401
                /\ q.calls = <<>>
                /\ ~q.handlerRan

(***************************************************************************)
(* C1, amended.  A /api/db request without a valid bearer token is         *)
(* answered 401, its handler never runs and the data backend is never      *)
(* called; without a token no backend is called at all, and a rejected     *)
(* token costs exactly the one resolve-user call to the identity backend.  *)
(***************************************************************************)
C1_UnauthorizedNoDataCall ==
    \A r \in DOMAIN req :
        LET q == req[r]
        IN IsDb(q) =>
             /\ ~Accepted(q) => (~q.handlerRan /\ CallsTo(q, "data") = {})
             /\ NoToken(q) =>
                  /\ Done(q) /\ q.res.sends = 1 /\ q.res.status = 401
                  /\ q.calls = <<>>
             /\ Rejected(q) =>
                  /\ Done(q) /\ q.res.sends = 1 /\ q.res.status = 401
                  /\ Len(q.calls) = 1
                  /\ q.calls[1].backend = "identity"

\* a request whose token the identity backend rejected was answered 401
C1_Witness ==
    \E r \in DOMAIN req :
        /\ IsDb(req[r]) /\ Done(req[r])
        /\ req[r].header = Header(<<"Bearer", SP>> \o TokBad)
        /\ Rejected(req[r])
        /\ req[r].res.status = 401

(***************************************************************************)
(* C2.  The row a create route sends to the backend's insert carries the   *)
(* user id the identity backend resolved for this very request, whatever   *)
(* user_id the body held, and every other field of the body as it came.    *)
(***************************************************************************)
C2_InsertOwnedByIdentity ==
    \A r \in DOMAIN req :
        LET q == req[r]
        IN \A i \in 1..Len(q.calls) :
             q.calls[i].op = "insert" =>
               LET row == q.calls[i].arg
               IN /\ q.route \in CreateRoutes
                  /\ Accepted(q)
                  /\ DOMAIN row = DOMAIN q.body \cup {"user_id"}
                  /\ row["user_id"] = q.auth.user.id
                  /\ \A f \in DOMAIN q.body \ {"user_id"} : row[f] = q.body[f]

\* user A's create with a body naming user B was sent with user A's id
C2_Witness ==
    \E r \in DOMAIN req :
        /\ req[r].route \in CreateRoutes
        /\ "user_id" \in DOMAIN req[r].body
        /\ req[r].body["user_id"] = "uB"
        /\ req[r].auth.user = UserA
        /\ \E i \in 1..Len(req[r].calls) :
             /\ req[r].calls[i].op = "insert"
             /\ req[r].calls[i].arg["user_id"] = "uA"

(***************************************************************************)
(* C3.  Under every interleaving of concurrent /api/db requests, each      *)
(* backend call of a request goes through the client created for that      *)
(* request, bound to that request's token, which no other request holds,   *)
(* and the user id it writes is that request's verified identity.          *)
(***************************************************************************)
C3_RequestScopedClient ==
    \A r \in DOMAIN req :
        LET q == req[r]
        IN /\ \A i \in 1..Len(q.calls) :
                LET c == q.calls[i]
                IN c.backend \in {"identity", "data"} =>
                     /\ c.via = q.localClient
                     /\ c.via # supabase
                     /\ c.via.id >= 1
                     /\ c.via.token = q.token.s
                     /\ \A o \in DOMAIN req \ {r} :
                          /\ req[o].localClient.id # c.via.id
                          /\ req[o].userClient.id # c.via.id
                     /\ c.op = "insert" => c.arg["user_id"] = TokenUser(q.token.s).id
           /\ q.userClient \in {NoClient, q.localClient}
           /\ q.user \in {NoUser, TokenUser(q.token.s)}

\* two requests of different users are both suspended in a backend query
C3_Witness ==
    \E r1, r2 \in DOMAIN req :
        /\ req[r1].token.s = TokA /\ req[r2].token.s = TokB
        /\ req[r1].pc \in {"awaitDb", "awaitDb2"}
        /\ req[r2].pc \in {"awaitDb", "awaitDb2"}
        /\ req[r1].route = "POST /api/db/conversations"

(***************************************************************************)
(* C4.  Conversation detail: when the node fetch reports an error the      *)
(* message fetch is never made and the answer is a 500 with the node       *)
(* fetch's message, never a {nodes, messages} result; when it succeeds the *)
(* message fetch follows it, restricted to the ids of the nodes returned.  *)
(***************************************************************************)
C4_DetailAbortsOnNodeError ==
    \A r \in DOMAIN req :
        LET q == req[r]
        IN (q.route = "GET /api/db/conversations/:id" /\ q.db1.settled) =>
             IF q.db1.error # Undefined
             THEN /\ Done(q)
                  /\ \A i \in 1..Len(q.calls) : q.calls[i].table # "messages"
                  /\ q.res.sends = 1
                  /\ q.res.status = 500
                  /\ q.res.body = ErrorBody(q.db1.error)
             ELSE /\ Len(q.calls) = 3
                  /\ q.calls[2].table = "nodes"
                  /\ q.calls[3].table = "messages"
                  /\ q.calls[3].op = "select"
                  /\ q.calls[3].arg.in = <<"nodes_id", [i \in 1..Len(q.db1.data) |->
                                                          q.db1.data[i].id]>>
                  /\ q.res.body.kind = "detail" =>
                       (q.db2.settled /\ q.db2.error = Undefined
                        /\ q.res.body.nodes = q.db1.data)

\* a conversation detail whose node fetch failed has been answered
C4_Witness ==
    \E r \in DOMAIN req :
        /\ req[r].route = "GET /api/db/conversations/:id"
        /\ req[r].db1.settled
        /\ req[r].db1.error = "permission denied"
        /\ Done(req[r])
        /\ req[r].res.status = 500

C7_ConfigKeyNeverPrivileged ==
    \A r \in DOMAIN req :
        LET q == req[r]
        IN (q.route = "GET /api/config/supabase" /\ Done(q)) =>
             /\ q.res.body.kind = "data"
             /\ DOMAIN q.res.body.data = {"url", "key"}
             /\ q.res.body.data.key # ServiceKey

(***************************************************************************)
(* C8.  The update PATCH /api/db/conversations/:id sends to the backend    *)
(* holds every field of the body and an updated_at that is the server's    *)
(* clock reading of that request, whatever updated_at the body held; the   *)
(* success response is {success: true}.                                    *)
(***************************************************************************)
C8_ServerSetsUpdatedAt ==
    \A r \in DOMAIN req :
        LET q == req[r]
        IN (q.route = "PATCH /api/db/conversations/:id" /\ q.handlerRan) =>
             /\ Len(q.calls) = 2
             /\ q.calls[2].op = "update"
             /\ q.calls[2].table = "conversations"
             /\ LET set == q.calls[2].arg.set
                IN /\ DOMAIN set = DOMAIN q.body \cup {"updated_at"}
                   /\ set["updated_at"] = ToISOString(q.now)
                   /\ \A f \in DOMAIN q.body \ {"updated_at"} : set[f] = q.body[f]
             /\ (q.db1.settled /\ q.db1.error = Undefined) =>
                  /\ Done(q) /\ q.res.status = 200
                  /\ q.res.body = SuccessBody

\* a body with an updated_at of its own was sent on with a later server reading
C8_Witness ==
    \E r \in DOMAIN req :
        /\ req[r].route = "PATCH /api/db/conversations/:id"
        /\ req[r].handlerRan
        /\ "updated_at" \in DOMAIN req[r].body
        /\ req[r].body["updated_at"] = ToISOString(1)
        /\ req[r].now = 2
        /\ req[r].calls[2].arg.set["updated_at"] = ToISOString(2)

(***************************************************************************)
(* C9.  Failure statuses: a failed OpenRouter call is answered with the    *)
(* upstream's HTTP status when there is one and 500 otherwise; a failed    *)
(* OpenAI or Gemini call with 500 whatever the upstream's status; a data   *)
(* backend error with 500 and the backend's message.  No failure is        *)
(* answered with a success status and no call is made again.               *)
(***************************************************************************)
C9_FailureStatus ==
    \A r \in DOMAIN req :
        LET q == req[r]
            failedUp == q.up.settled /\ ~q.up.ok
        IN /\ (q.route = "POST /api/openrouter/chat" /\ failedUp) =>
                /\ Done(q) /\ q.res.sends = 1
                /\ q.res.status = (IF q.up.status \in 100..599 THEN q.up.status ELSE 500)
                /\ q.res.status \notin 200..299
                /\ q.res.body.kind = "error"
                /\ Len(q.calls) = 1
           /\ (q.route \in {"POST /api/openai/chat", "POST /api/gemini/generate"}
                 /\ failedUp) =>
                /\ Done(q) /\ q.res.sends = 1
                /\ q.res.status = 500
                /\ q.res.body.kind = "error"
                /\ Len(q.calls) = 1
           /\ (IsDb(q) /\ q.db1.settled /\ q.db1.error # Undefined) =>
                /\ Done(q) /\ q.res.sends = 1
                /\ q.res.status = 500
                /\ q.res.body = ErrorBody(q.db1.error)
                /\ Cardinality(CallsTo(q, "data")) = 1
           /\ (IsDb(q) /\ q.db2.settled /\ q.db2.error # Undefined) =>
                /\ Done(q) /\ q.res.sends = 1
                /\ q.res.status = 500
                /\ q.res.body = ErrorBody(q.db2.error)
                /\ Cardinality(CallsTo(q, "data")) = 2

\* an OpenRouter call that failed with 429 was answered 429
C9_Witness ==
    \E r \in DOMAIN req :
        /\ req[r].route = "POST /api/openrouter/chat"
        /\ req[r].up.settled /\ ~req[r].up.ok
        /\ req[r].up.status = 429
        /\ req[r].res.status = 429

\* the single-response part of C10: at most one response is started on a
\* request, the guard answers or runs the handler, and the event-stream
\* headers wait for the upstream call's success
C10_OneResponse ==
    \A r \in DOMAIN req :
        LET q == req[r]
        IN /\ q.res.sends <= 1
           /\ Done(q) => (q.res.sends = 1 /\ q.res.ended)
           /\ (IsDb(q) /\ q.handlerRan) =>
                  (Accepted(q) /\ q.res.body \notin {ErrorBody("Unauthorized"),
                                                    ErrorBody("Invalid token"),
                                                    ErrorBody("Internal Auth Error")})
           /\ q.res.ctype = "text/event-stream" => (q.up.settled /\ q.up.ok)
           /\ (q.up.settled /\ ~q.up.ok) => q.res.ctype = "application/json"

(***************************************************************************)
(* C10.  Every outbound call settling, a request gets exactly one          *)
(* response started and never a second: the guard answers or runs the      *)
(* handler, never both; the event-stream headers are set only after the    *)
(* upstream call succeeded, a failure before that being answered in JSON;  *)
(* and a streaming response, once started, is eventually ended.            *)
(***************************************************************************)
C10_OneResponseAndStreamEnds ==
    /\ []C10_OneResponse
    /\ \A r \in 1..NumReqs : (req[r].pc = "piping") ~> req[r].res.ended

====
